---- MODULE Spec2Model ----
(***************************************************************************)
(* Tiered answer evaluation of the French writing quiz:                    *)
(*   client  evaluateWritingAnswer   (src/lib/writing-questions.ts)        *)
(*   server  POST /api/evaluate-writing, evaluateWithClaude                *)
(*           (src/app/api/evaluate-writing/route.ts)                       *)
(*   local   fuzzyEvaluateAnswer, calculateSimilarity, hasCorrectAccents   *)
(*           (src/lib/writing-questions.ts, src/lib/feature-flags.ts)      *)
(*                                                                         *)
(* A string is a sequence of UTF-16 code units.  The code units that occur *)
(* are: "a" and "e" (plain letters), "E" (upper-case E), "e_acute" (the    *)
(* precomposed U+00E9), "acute" (the combining mark U+0301, produced by    *)
(* NFD decomposition), " " (white space) and "?" (one of the French double *)
(* punctuation marks ? ! ; :).                                             *)
(***************************************************************************)
EXTENDS Integers, Sequences, FiniteSets

(***************************************************************************)
(* Bounds of the model.                                                    *)
(***************************************************************************)
\* longest free part of a submitted answer
MaxLen == 2
\* longest list of acceptable variations
MaxVariations == 2

(***************************************************************************)
(* Characters.                                                             *)
(***************************************************************************)
WhiteSpace == {" "}
PunctChars == {"?", "!", ";", ":"}
CombiningMarks == {"acute"}

\* String.prototype.normalize('NFD') on one code unit
NFDChar(c) == IF c = "e_acute" THEN <<"e", "acute">> ELSE <<c>>

\* String.prototype.toLowerCase on one code unit
LowerChar(c) == IF c = "E" THEN "e" ELSE c

RECURSIVE NFD(_)
NFD(s) == IF s = <<>> THEN <<>> ELSE NFDChar(Head(s)) \o NFD(Tail(s))

\* .replace(/[\u0300-\u036f]/g, '') : remove the combining marks
StripMarks(s) == SelectSeq(s, LAMBDA c : c \notin CombiningMarks)

ToLowerCase(s) == [i \in 1..Len(s) |-> LowerChar(s[i])]

RECURSIVE TrimStart(_)
TrimStart(s) ==
  IF s # <<>> /\ Head(s) \in WhiteSpace THEN TrimStart(Tail(s)) ELSE s

RECURSIVE TrimEnd(_)
TrimEnd(s) ==
  IF s # <<>> /\ s[Len(s)] \in WhiteSpace
  THEN TrimEnd(SubSeq(s, 1, Len(s) - 1))
  ELSE s

\* String.prototype.trim
Trim(s) == TrimEnd(TrimStart(s))

\* .replace(/\s+/g, ' ') : every maximal white-space run becomes one space
RECURSIVE CollapseWhitespace(_)
CollapseWhitespace(s) ==
  IF s = <<>> THEN <<>>
  ELSE IF Head(s) \in WhiteSpace
       THEN <<" ">> \o CollapseWhitespace(TrimStart(s))
       ELSE <<Head(s)>> \o CollapseWhitespace(Tail(s))

\* mutant: the combining marks are removed before the text is decomposed
normalizeText_StripBeforeNFD(text) ==
  CollapseWhitespace(Trim(ToLowerCase(NFD(StripMarks(text)))))

\* normalizeText: NFD, strip diacritics, lower-case, trim, collapse white space
normalizeText(text) ==
  CollapseWhitespace(Trim(ToLowerCase(StripMarks(NFD(text)))))

\* normalizePunctuationSpacing: .replace(/\s+([?!;:])/g, '$1')
RECURSIVE normalizePunctuationSpacing(_)
normalizePunctuationSpacing(text) ==
  IF text = <<>> THEN <<>>
  ELSE IF Head(text) \in WhiteSpace
       THEN LET rest == TrimStart(text)
            IN  IF rest # <<>> /\ Head(rest) \in PunctChars
                THEN normalizePunctuationSpacing(rest)
                ELSE SubSeq(text, 1, Len(text) - Len(rest))
                       \o normalizePunctuationSpacing(rest)
       ELSE <<Head(text)>> \o normalizePunctuationSpacing(Tail(text))

Min2(x, y) == IF x <= y THEN x ELSE y

(***************************************************************************)
(* levenshteinDistance: the matrix is filled row by row; a row is kept as  *)
(* a sequence whose element j+1 is matrix[i][j].                           *)
(***************************************************************************)
\* row 0: matrix[0][j] = j
LevFirstRow(str1) == [k \in 1..(Len(str1) + 1) |-> k - 1]

\* mutant: the deletion term matrix[i - 1][j] + 1 is left out
RECURSIVE LevCells_NoDeletion(_, _, _, _, _)
LevCells_NoDeletion(prev, ch, str1, j, acc) ==
  IF j > Len(str1) THEN acc
  ELSE LET cell == IF ch = str1[j]
                   THEN prev[j]
                   ELSE Min2(prev[j] + 1, acc[j] + 1)
           next == Append(acc, cell)
       IN  IF Len(next) = j + 1
           THEN LevCells_NoDeletion(prev, ch, str1, j + 1, next)
           ELSE next

\* cells matrix[i][j..] of one row, given the cells acc built so far
RECURSIVE LevCells(_, _, _, _, _)
LevCells(prev, ch, str1, j, acc) ==
  IF j > Len(str1) THEN acc
  ELSE LET cell == IF ch = str1[j]
                   THEN prev[j]
                   ELSE Min2(prev[j] + 1, Min2(acc[j] + 1, prev[j + 1] + 1))
           next == Append(acc, cell)
       IN  IF Len(next) = j + 1
           THEN LevCells(prev, ch, str1, j + 1, next)
           ELSE next

\* rows i..str2.length, starting from row i-1
RECURSIVE LevRows(_, _, _, _)
LevRows(prev, str1, str2, i) ==
  IF i > Len(str2) THEN prev
  ELSE LET row == LevCells(prev, str2[i], str1, 1, <<i>>)
       IN  IF Len(row) = Len(str1) + 1
           THEN LevRows(row, str1, str2, i + 1)
           ELSE row

levenshteinDistance(str1, str2) ==
  LevRows(LevFirstRow(str1), str1, str2, 1)[Len(str1) + 1]

\* mutant: the distance is divided by the length of the first string
calculateSimilarity_ByFirstLength(str1, str2) ==
  LET normalized1 == normalizePunctuationSpacing(normalizeText(str1))
      normalized2 == normalizePunctuationSpacing(normalizeText(str2))
  IN  IF Len(normalized1) = 0
      THEN [num |-> 1, den |-> 1]
      ELSE [num |-> Len(normalized1) - levenshteinDistance(normalized1, normalized2),
            den |-> Len(normalized1)]

(***************************************************************************)
(* A similarity is the ratio 1 - distance/maxLength, kept exactly as the   *)
(* pair num/den.  For the string lengths of this model the IEEE doubles of *)
(* the code order against 0.70, 0.85, 0.95 and round to a percent exactly  *)
(* as the ratios do (they first differ in rounding, at maxLength = 40).    *)
(***************************************************************************)
calculateSimilarity(str1, str2) ==
  LET normalized1 == normalizePunctuationSpacing(normalizeText(str1))
      normalized2 == normalizePunctuationSpacing(normalizeText(str2))
      maxLength == IF Len(normalized1) >= Len(normalized2)
                   THEN Len(normalized1) ELSE Len(normalized2)
  IN  IF maxLength = 0
      THEN [num |-> 1, den |-> 1]
      ELSE [num |-> maxLength - levenshteinDistance(normalized1, normalized2),
            den |-> maxLength]

\* similarity < percent / 100
\* the value of a division whose numerator is not a number: every comparison
\* with it is false
NotANumber == -1

SimBelow(sim, percent) ==
  percent # NotANumber /\ sim.num * 100 < percent * sim.den

\* Math.round(similarity * 100): halves round up
RoundPercent(sim) == (200 * sim.num + sim.den) \div (2 * sim.den)

\* mutant: the accents are correct when the two texts carry the same
\* combining marks, whatever their letters
hasCorrectAccents_MarksOnly(userAnswer, correctAnswer) ==
  SelectSeq(NFD(userAnswer), LAMBDA c : c \in CombiningMarks)
    = SelectSeq(NFD(correctAnswer), LAMBDA c : c \in CombiningMarks)

\* hasCorrectAccents: trim, lower-case, collapse white space, punctuation
\* spacing; diacritics are kept
hasCorrectAccents(userAnswer, correctAnswer) ==
  LET normalize(text) ==
        normalizePunctuationSpacing(CollapseWhitespace(ToLowerCase(Trim(text))))
  IN  normalize(userAnswer) = normalize(correctAnswer)

(***************************************************************************)
(* feature-flags.ts                                                        *)
(***************************************************************************)
FUZZY_LOGIC_THRESHOLDS ==
  [beginner |-> 70, intermediate |-> 85, advanced |-> 95]

MINOR_TYPO == 95
BEGINNER_PASS == 85

\* property names every object literal inherits from Object.prototype
ObjectPrototypeKeys == {"constructor"}

\* mutant: the intermediate threshold for every difficulty
getFuzzyLogicThreshold_Flat(difficulty) == FUZZY_LOGIC_THRESHOLDS.intermediate

\* FUZZY_LOGIC_THRESHOLDS[difficulty] ?? FUZZY_LOGIC_THRESHOLDS.intermediate:
\* the property access also finds the members the object literal inherits
\* from Object.prototype, which are functions, neither null nor undefined;
\* fuzzyEvaluateAnswer divides the result by 100
getFuzzyLogicThreshold(difficulty) ==
  IF difficulty \in DOMAIN FUZZY_LOGIC_THRESHOLDS
  THEN FUZZY_LOGIC_THRESHOLDS[difficulty]
  ELSE IF difficulty \in ObjectPrototypeKeys
  THEN NotANumber
  ELSE FUZZY_LOGIC_THRESHOLDS.intermediate

(***************************************************************************)
(* Values.  null / undefined strings are the one-element sequences below,  *)
(* which no text equals; a JavaScript truthiness test of a string fails on *)
(* null, undefined and the empty string.                                   *)
(***************************************************************************)
Null == <<"null">>
Undefined == <<"undefined">>
\* mutant: only undefined and the empty string are falsy
Truthy_NullIsTruthy(s) == s # Undefined /\ s # <<>>

Truthy(s) == s # Null /\ s # Undefined /\ s # <<>>

NoMatchInfo ==
  [matchedAgainst |-> "none", matchedVariationIndex |-> -1,
   matchedSimilarity |-> -1, evaluationReason |-> "none"]

NoMetadata ==
  [evaluationTier |-> "none", similarityScore |-> -1, confidenceScore |-> -1,
   confidenceThreshold |-> -1, usedClaudeAPI |-> FALSE]

\* an EvaluationResult; fuzzyEvaluateAnswer's null is NullResult
MkResult(isCorrect, score, hasAccents, feedback, corrections, corrected, info) ==
  [isNull |-> FALSE, isCorrect |-> isCorrect, score |-> score,
   hasCorrectAccents |-> hasAccents, feedback |-> feedback,
   corrections |-> corrections, correctedAnswer |-> corrected,
   matchInfo |-> info, metadata |-> NoMetadata]

NullResult ==
  [isNull |-> TRUE, isCorrect |-> FALSE, score |-> 0,
   hasCorrectAccents |-> FALSE, feedback |-> "none", corrections |-> "none",
   correctedAnswer |-> Undefined, matchInfo |-> NoMatchInfo,
   metadata |-> NoMetadata]

(***************************************************************************)
(* fuzzyEvaluateAnswer                                                     *)
(***************************************************************************)
\* mutant: a bonus on the primary scores instead of a penalty
VariationExactScore_Bonus(hasAccents) == IF hasAccents THEN 102 ELSE 100

\* mutant: the scores of the primary answer
VariationExactScore_AsPrimary(hasAccents) == IF hasAccents THEN 100 ELSE 98

\* mutant: no penalty
VariationSimilarityScore_NoPenalty(variationSimilarity) ==
  RoundPercent(variationSimilarity)

\* score of an exact match against a variation
VariationExactScore(hasAccents) == IF hasAccents THEN 98 ELSE 96

\* score of a similarity match against a variation: slight penalty
VariationSimilarityScore(variationSimilarity) ==
  RoundPercent(variationSimilarity) - 2

\* the result returned for acceptableVariations[i] (0-based i), or NullResult
\* when the loop goes on to the next variation
VariationResult(userAnswer, normalizedUser, variation, i) ==
  LET normalizedVariation == normalizePunctuationSpacing(normalizeText(variation))
      variationSimilarity == calculateSimilarity(userAnswer, variation)
      hasAccents == hasCorrectAccents(userAnswer, variation)
  IN  IF normalizedVariation = normalizedUser
      THEN MkResult(TRUE, VariationExactScore(hasAccents), hasAccents,
                    IF hasAccents THEN "variation_ok" ELSE "variation_accents",
                    IF hasAccents THEN "none" ELSE "accents", Undefined,
                    [matchedAgainst |-> "acceptable_variation",
                     matchedVariationIndex |-> i,
                     matchedSimilarity |-> 100,
                     evaluationReason |-> "exact_variation"])
      ELSE IF ~SimBelow(variationSimilarity, 95)
      THEN MkResult(TRUE, VariationSimilarityScore(variationSimilarity), hasAccents,
                    "variation_typo", "suggestions", variation,
                    [matchedAgainst |-> "acceptable_variation",
                     matchedVariationIndex |-> i,
                     matchedSimilarity |-> RoundPercent(variationSimilarity),
                     evaluationReason |-> "similarity_variation"])
      ELSE NullResult

\* mutant: the scan keeps the last variation that matches
RECURSIVE ScanVariations_LastWins(_, _, _, _)
ScanVariations_LastWins(userAnswer, normalizedUser, acceptableVariations, i) ==
  IF i >= Len(acceptableVariations) THEN NullResult
  ELSE LET later == ScanVariations_LastWins(userAnswer, normalizedUser,
                                            acceptableVariations, i + 1)
       IN  IF ~later.isNull THEN later
           ELSE VariationResult(userAnswer, normalizedUser,
                                acceptableVariations[i + 1], i)

\* for (let i = 0; i < acceptableVariations.length; i++): first return wins
RECURSIVE ScanVariations(_, _, _, _)
ScanVariations(userAnswer, normalizedUser, acceptableVariations, i) ==
  IF i >= Len(acceptableVariations) THEN NullResult
  ELSE LET r == VariationResult(userAnswer, normalizedUser,
                                acceptableVariations[i + 1], i)
       IN  IF ~r.isNull THEN r
           ELSE ScanVariations(userAnswer, normalizedUser, acceptableVariations, i + 1)

\* mutant: the band limits are exclusive
BandIsCorrect_Exclusive(similarityPercent, difficulty) ==
  IF similarityPercent > MINOR_TYPO THEN TRUE
  ELSE IF similarityPercent > BEGINNER_PASS THEN difficulty = "beginner"
  ELSE FALSE

\* the correctness bands, applied to the rounded similarity percent
BandIsCorrect(similarityPercent, difficulty) ==
  IF similarityPercent >= MINOR_TYPO THEN TRUE
  ELSE IF similarityPercent >= BEGINNER_PASS THEN difficulty = "beginner"
  ELSE FALSE

\* mutant: the score is remapped by band: 90 for an answer graded correct,
\* 40 for one graded incorrect
FuzzyPrimary_Remapped(userAnswer, correctAnswer, difficulty) ==
  LET similarity == calculateSimilarity(userAnswer, correctAnswer)
      threshold == getFuzzyLogicThreshold(difficulty)
      similarityPercent == RoundPercent(similarity)
      isCorrect == BandIsCorrect(similarityPercent, difficulty)
  IN  IF SimBelow(similarity, threshold)
      THEN NullResult
      ELSE MkResult(isCorrect, IF isCorrect THEN 90 ELSE 40,
                    hasCorrectAccents(userAnswer, correctAnswer),
                    "remapped", "suggestions", correctAnswer,
                    [matchedAgainst |-> "primary_answer",
                     matchedVariationIndex |-> -1,
                     matchedSimilarity |-> similarityPercent,
                     evaluationReason |-> "fuzzy_primary"])

\* the fuzzy match against the primary answer, after the variations
FuzzyPrimary(userAnswer, correctAnswer, difficulty) ==
  LET similarity == calculateSimilarity(userAnswer, correctAnswer)
      threshold == getFuzzyLogicThreshold(difficulty)
      similarityPercent == RoundPercent(similarity)
      isCorrect == BandIsCorrect(similarityPercent, difficulty)
      feedback == IF similarityPercent >= MINOR_TYPO THEN "minor_typo"
                  ELSE IF similarityPercent >= BEGINNER_PASS
                       THEN (IF isCorrect THEN "good_effort" ELSE "not_bad")
                       ELSE "several_errors"
  IN  IF SimBelow(similarity, threshold)
      THEN NullResult
      ELSE MkResult(isCorrect, similarityPercent,
                    hasCorrectAccents(userAnswer, correctAnswer),
                    feedback, "suggestions", correctAnswer,
                    [matchedAgainst |-> "primary_answer",
                     matchedVariationIndex |-> -1,
                     matchedSimilarity |-> similarityPercent,
                     evaluationReason |-> "fuzzy_primary"])

\* mutant: the variations are scanned before the exact match against the
\* primary answer
fuzzyEvaluateAnswer_VariationsFirst(userAnswer, correctAnswer, acceptableVariations, difficulty) ==
  IF ~Truthy(correctAnswer) THEN NullResult
  ELSE
    LET normalizedUser == normalizePunctuationSpacing(normalizeText(userAnswer))
        normalizedCorrect == normalizePunctuationSpacing(normalizeText(correctAnswer))
        hasAccents == hasCorrectAccents(userAnswer, correctAnswer)
        fromVariations == ScanVariations(userAnswer, normalizedUser,
                                         acceptableVariations, 0)
    IN  IF ~fromVariations.isNull
        THEN fromVariations
        ELSE IF normalizedUser = normalizedCorrect
        THEN MkResult(TRUE, IF hasAccents THEN 100 ELSE 98, hasAccents,
                      IF hasAccents THEN "perfect" ELSE "accent_reminder",
                      IF hasAccents THEN "none" ELSE "accents", Undefined,
                      [matchedAgainst |-> "primary_answer",
                       matchedVariationIndex |-> -1,
                       matchedSimilarity |-> 100,
                       evaluationReason |-> "exact_primary"])
        ELSE FuzzyPrimary(userAnswer, correctAnswer, difficulty)

fuzzyEvaluateAnswer(userAnswer, correctAnswer, acceptableVariations, difficulty) ==
  IF ~Truthy(correctAnswer) THEN NullResult
  ELSE
    LET normalizedUser == normalizePunctuationSpacing(normalizeText(userAnswer))
        normalizedCorrect == normalizePunctuationSpacing(normalizeText(correctAnswer))
        hasAccents == hasCorrectAccents(userAnswer, correctAnswer)
        fromVariations == ScanVariations(userAnswer, normalizedUser,
                                         acceptableVariations, 0)
    IN  IF normalizedUser = normalizedCorrect
        THEN MkResult(TRUE, IF hasAccents THEN 100 ELSE 98, hasAccents,
                      IF hasAccents THEN "perfect" ELSE "accent_reminder",
                      IF hasAccents THEN "none" ELSE "accents", Undefined,
                      [matchedAgainst |-> "primary_answer",
                       matchedVariationIndex |-> -1,
                       matchedSimilarity |-> 100,
                       evaluationReason |-> "exact_primary"])
        ELSE IF ~fromVariations.isNull
        THEN fromVariations
        ELSE FuzzyPrimary(userAnswer, correctAnswer, difficulty)

(***************************************************************************)
(* route.ts: POST /api/evaluate-writing                                    *)
(***************************************************************************)
\* FEATURES has no API_ONLY_EVALUATION key: the flag reads undefined (falsy)
\* mutant: the flag is set, the fuzzy tier is skipped
API_ONLY_EVALUATION_Set == TRUE

API_ONLY_EVALUATION == FALSE

\* route.ts has its own normalizeText, without punctuation spacing
RouteNormalizeText(text) ==
  CollapseWhitespace(Trim(ToLowerCase(StripMarks(NFD(text)))))

\* route.ts exact-match tier: accents compared after trim and lower-case only
RouteHasCorrectAccents(userAnswer, correctAnswer) ==
  ToLowerCase(Trim(userAnswer)) = ToLowerCase(Trim(correctAnswer))

\* mutant: the similarity score of the diagnostics replaces the score
WithMetadata_Rescored(result, include, meta) ==
  IF include
  THEN [result EXCEPT !.metadata = meta,
                      !.score = IF meta.similarityScore >= 0
                                THEN meta.similarityScore ELSE @]
  ELSE result

\* mutant: the threshold of intermediate is reported for every difficulty
RouteThreshold_Fixed(difficulty) == 85

\* thresholds[difficulty] || 85, reported in the superuser metadata
RouteThreshold(difficulty) ==
  IF difficulty = "beginner" THEN 70
  ELSE IF difficulty = "intermediate" THEN 85
  ELSE IF difficulty = "advanced" THEN 95
  ELSE IF difficulty \in ObjectPrototypeKeys THEN -1
  ELSE 85

WithMetadata(result, include, meta) ==
  IF include THEN [result EXCEPT !.metadata = meta] ELSE result

\* mutant: the length is taken without trimming
TooShort_NoTrim(userAnswer) == Len(userAnswer) < 2

\* tier 1 test: userAnswer.trim().length < 2
TooShort(userAnswer) == Len(Trim(userAnswer)) < 2

\* tier 1 result
EmptyCheckResult ==
  MkResult(FALSE, 0, FALSE, "too_short", "suggestions", Undefined, NoMatchInfo)

\* tier 2 result
RouteExactResult(userAnswer, correctAnswer) ==
  LET hasAccents == RouteHasCorrectAccents(userAnswer, correctAnswer)
  IN  MkResult(TRUE, IF hasAccents THEN 100 ELSE 98, hasAccents,
               IF hasAccents THEN "perfect" ELSE "accent_reminder",
               IF hasAccents THEN "none" ELSE "accents", Undefined, NoMatchInfo)

\* mutant: the failure result of the client
ClaudeFailureResult_Zero ==
  MkResult(FALSE, 0, FALSE, "unable_to_evaluate", "none", Undefined, NoMatchInfo)

\* evaluateWithClaude's catch block
ClaudeFailureResult ==
  MkResult(FALSE, 50, FALSE, "unable_to_evaluate", "none", Undefined, NoMatchInfo)

\* evaluateWritingAnswer's catch block
ClientFailureResult ==
  MkResult(FALSE, 0, FALSE, "unable_to_evaluate_retry", "none", Undefined, NoMatchInfo)

\* an HTTP response; the body of an error response carries no result
OkResponse(body) == [status |-> 200, body |-> body]
ErrorResponse(status) == [status |-> status, body |-> NullResult]
NoResponse == [status |-> 0, body |-> NullResult]

\* POST from the parsed request to its response or to the call of the
\* semantic evaluator: the response, the metadata a superuser gets with it,
\* and whether evaluateWithClaude is called instead
PostTiers(req) ==
  LET userAnswer == req.userAnswer
      correctAnswer == req.correctAnswer
      similarityScore == RoundPercent(calculateSimilarity(userAnswer, correctAnswer))
      fuzzyResult == fuzzyEvaluateAnswer(userAnswer, correctAnswer,
                                         req.acceptableVariations, req.difficulty)
  IN  IF ~Truthy(req.question) \/ ~Truthy(userAnswer)
      THEN [response |-> ErrorResponse(400), metadata |-> NoMetadata,
            callClaude |-> FALSE]
      ELSE IF TooShort(userAnswer)
      THEN [response |-> OkResponse(EmptyCheckResult),
            metadata |-> [NoMetadata EXCEPT !.evaluationTier = "empty_check"],
            callClaude |-> FALSE]
      ELSE IF Truthy(correctAnswer)
              /\ RouteNormalizeText(userAnswer) = RouteNormalizeText(correctAnswer)
      THEN [response |-> OkResponse(RouteExactResult(userAnswer, correctAnswer)),
            metadata |-> [NoMetadata EXCEPT !.evaluationTier = "exact_match",
                                            !.similarityScore = similarityScore,
                                            !.confidenceScore = 100],
            callClaude |-> FALSE]
      ELSE IF ~API_ONLY_EVALUATION /\ Truthy(correctAnswer) /\ ~fuzzyResult.isNull
      THEN [response |-> OkResponse(fuzzyResult),
            metadata |-> [NoMetadata EXCEPT !.evaluationTier = "fuzzy_logic",
                                            !.similarityScore = similarityScore,
                                            !.confidenceScore = similarityScore,
                                            !.confidenceThreshold =
                                                RouteThreshold(req.difficulty)],
            callClaude |-> FALSE]
      ELSE [response |-> NoResponse, metadata |-> NoMetadata, callClaude |-> TRUE]

(***************************************************************************)
(* Inputs.                                                                 *)
(***************************************************************************)
\* all strings over alphabet of length at most n
Strings(alphabet, n) == UNION {[1..k -> alphabet] : k \in 0..n}

\* a long answer of the quiz: the free part, set between a letter and a
\* question mark followed by letters, n code units around it (n = 0: the
\* free part alone)
Padded(free, n) ==
  IF n = 0 THEN free
  ELSE IF n = 1 THEN <<"a">> \o free
  ELSE <<"a">> \o free \o <<"?">> \o [k \in 1..(n - 2) |-> "a"]

AnswerAlphabet == {"e", "e_acute", " ", "?"}
\* answer lengths at which similarities 0.80, 0.846, 0.947 and 0.95 occur
PadLens == {0, 3, 11, 17, 18}
\* the short ones, whose free part grows with MaxLen
ShortPadLens == {0, 3}
\* free parts of the long answers: at most two characters
LongAnswerPool ==
  {<<>>} \cup {<<x>> : x \in AnswerAlphabet}
         \cup {<<x, y>> : x \in AnswerAlphabet, y \in AnswerAlphabet}
Difficulties ==
  {"beginner", "intermediate", "advanced", "expert", "constructor"}

\* free parts of the canonical answers
CorrectPool ==
  {<<>>, <<" ">>, <<"e">>, <<"E", "e">>, <<"e", "e">>, <<"e_acute", "e">>,
   <<"e", "?">>}
\* free parts of the acceptable variations
VariationPool == {<<"e">>, <<"e_acute">>, <<"e", "e">>}
\* free parts of the answers given to questions with acceptable variations
VariationAnswerPool ==
  {<<>>, <<" ">>, <<"e">>, <<"e_acute">>, <<"e", " ">>, <<"e", "e">>,
   <<"e_acute", "e">>}
VariationLists == UNION {[1..k -> VariationPool] : k \in 1..MaxVariations}

MkRequest(question, userAnswer, correctAnswer, variations, difficulty, n) ==
  [question |-> question,
   userAnswer |-> Padded(userAnswer, n),
   correctAnswer |-> IF correctAnswer = Null THEN Null ELSE Padded(correctAnswer, n),
   acceptableVariations |->
     [k \in 1..Len(variations) |-> Padded(variations[k], n)],
   difficulty |-> difficulty,
   questionType |-> IF correctAnswer = Null THEN "open_ended" ELSE "translation"]

\* requests without acceptable variations
PlainRequests ==
  {MkRequest(<<"q">>, u, c, <<>>, d, n) :
     u \in Strings(AnswerAlphabet, MaxLen), c \in CorrectPool \cup {Null},
     d \in Difficulties, n \in ShortPadLens}
  \cup
  {MkRequest(<<"q">>, u, c, <<>>, d, n) :
     u \in LongAnswerPool, c \in CorrectPool \cup {Null},
     d \in Difficulties, n \in PadLens \ ShortPadLens}

\* requests with acceptable variations
VariationRequests ==
  {MkRequest(<<"q">>, u, c, v, d, n) :
     u \in VariationAnswerPool,
     c \in {Null, <<"e">>, <<"?", "?">>},
     v \in VariationLists, d \in {"beginner", "advanced"}, n \in {0, 18}}

\* requests without a question text
NoQuestionRequests ==
  {MkRequest(<<>>, u, c, <<>>, "beginner", 0) :
     u \in Strings(AnswerAlphabet, MaxLen), c \in {Null, <<"e", "e">>}}

Requests == PlainRequests \cup VariationRequests \cup NoQuestionRequests

\* what the semantic evaluator can answer: the parsed JSON of its reply
ClaudeReplies ==
  {[isCorrect |-> TRUE, score |-> 95, hasCorrectAccents |-> TRUE,
    feedback |-> "claude_praise", corrections |-> "none",
    correctedAnswer |-> Null, confidenceScore |-> 97],
   [isCorrect |-> TRUE, score |-> 65, hasCorrectAccents |-> FALSE,
    feedback |-> "claude_good", corrections |-> "accents",
    correctedAnswer |-> <<"e_acute">>, confidenceScore |-> 70],
   [isCorrect |-> FALSE, score |-> 0, hasCorrectAccents |-> FALSE,
    feedback |-> "claude_wrong", corrections |-> "suggestions",
    correctedAnswer |-> <<"e", "e">>, confidenceScore |-> 55]}

\* no reply parsed
NoReply ==
  [isCorrect |-> FALSE, score |-> -1, hasCorrectAccents |-> FALSE,
   feedback |-> "none", corrections |-> "none", correctedAnswer |-> Undefined,
   confidenceScore |-> -1]

\* evaluateWithClaude(question, userAnswer, correctAnswer, questionType,
\* difficulty): the arguments POST passes, as parsed from the body
EvaluateWithClaudeArgs(req) ==
  [question |-> req.question,
   userAnswer |-> req.userAnswer,
   correctAnswer |-> req.correctAnswer,
   questionType |-> req.questionType,
   difficulty |-> req.difficulty]

\* evaluateWithClaude not called
NoClaudeRequest ==
  [question |-> Undefined, userAnswer |-> Undefined,
   correctAnswer |-> Undefined, questionType |-> "none",
   difficulty |-> "none"]

\* the ways the call of the semantic evaluator fails
ClaudeFailures == {"transport", "non_text", "unparseable"}

(***************************************************************************)
(* useQuestionEvaluation and WritingQuestionComponent: values.             *)
(***************************************************************************)
\* evaluateWritingAnswer calls one component makes
MaxCalls == 2
\* questions the parent shows in turn
MaxQuestions == 2

\* what the learner types
HookAnswers == {<<>>, <<" ">>, <<"e", "e">>}

\* useState<EvaluationResult | null>(null); a result is known by the call
\* of evaluateWritingAnswer that returned it
NoEvaluation == [call |-> 0, answer |-> <<>>, question |-> 0]

\* what the functions of one render see: the state and the props of that
\* render
Closure(h) ==
  [userAnswer |-> h.userAnswer, isEvaluating |-> h.isEvaluating,
   evaluation |-> h.evaluation, question |-> h.question]

\* the component after its first render
HookIdle ==
  [userAnswer |-> <<>>, isEvaluating |-> FALSE, evaluation |-> NoEvaluation,
   question |-> 1,
   rendered |-> [userAnswer |-> <<>>, isEvaluating |-> FALSE,
                 evaluation |-> NoEvaluation, question |-> 1],
   storedStudyCode |-> FALSE, awaiting |-> <<>>, inFlight |-> {},
   calls |-> 0, reported |-> {}, resetAtCall |-> 0]

\* submitAnswer of the render closure, up to its await: the guard, then
\* setIsEvaluating(true) and the call of evaluateWritingAnswer
submitAnswer(h, closure) ==
  IF Trim(closure.userAnswer) = <<>> \/ closure.isEvaluating
  THEN h
  ELSE [h EXCEPT !.isEvaluating = TRUE,
                 !.calls = @ + 1,
                 !.inFlight = @ \cup {[call |-> h.calls + 1,
                                       answer |-> closure.userAnswer,
                                       question |-> closure.question]}]

\* the component re-rendered: its functions close over the state of h
Rerendered(h) == [h EXCEPT !.rendered = Closure(h)]

\* resetAnswer: setUserAnswer(''), setEvaluation(null)
resetAnswer(h) ==
  [h EXCEPT !.userAnswer = <<>>, !.evaluation = NoEvaluation,
            !.resetAtCall = h.calls]

(***************************************************************************)
(* State.                                                                  *)
(***************************************************************************)
VARIABLES
  request,       \* the arguments of evaluateWritingAnswer
  pc,            \* where the evaluation stands
  response,      \* the HTTP response of POST
  result,        \* what evaluateWritingAnswer returned
  claudeCalls,   \* number of anthropic.messages.create calls
  claudeOutcome, \* "none", "ok" or the failure of the call
  claudeReply,   \* the parsed reply of the semantic evaluator, if any
  claudeRequest, \* the arguments evaluateWithClaude was called with
  hook           \* the component: state of useQuestionEvaluation, closures, calls

evalVars ==
  <<request, pc, response, result, claudeCalls, claudeOutcome, claudeReply,
    claudeRequest>>
vars == <<evalVars, hook>>

Init ==
  /\ request \in Requests
  /\ pc = "start"
  /\ response = NoResponse
  /\ result = NullResult
  /\ claudeCalls = 0
  /\ claudeOutcome = "none"
  /\ claudeReply = NoReply
  /\ claudeRequest = NoClaudeRequest
  /\ hook = HookIdle

\* evaluateWritingAnswer: fetch('/api/evaluate-writing') reaches the server
Fetch ==
  /\ pc = "start"
  /\ pc' = "server"
  /\ UNCHANGED <<request, response, result, claudeCalls, claudeOutcome,
                 claudeReply, claudeRequest>>
  /\ UNCHANGED hook

\* evaluateWritingAnswer: fetch rejects; the catch block returns the fallback
FetchFails ==
  /\ pc = "start"
  /\ pc' = "done"
  /\ result' = ClientFailureResult
  /\ UNCHANGED <<request, response, claudeCalls, claudeOutcome, claudeReply,
                 claudeRequest>>
  /\ UNCHANGED hook

\* mutant: POST may answer from a cache of results keyed without the
\* difficulty
PostLocal_StaleCache ==
  /\ pc = "server"
  /\ \E includeSuperuserMetadata \in BOOLEAN,
        out \in {PostTiers(request),
                 PostTiers([request EXCEPT !.difficulty = "beginner"])} :
           IF out.callClaude
           THEN /\ pc' = IF includeSuperuserMetadata THEN "claude_su" ELSE "claude"
                /\ claudeCalls' = claudeCalls + 1
                /\ claudeRequest' = EvaluateWithClaudeArgs(request)
                /\ UNCHANGED response
           ELSE /\ pc' = "responded"
                /\ response' =
                     IF out.response.status = 200
                     THEN OkResponse(WithMetadata(out.response.body,
                                                  includeSuperuserMetadata,
                                                  out.metadata))
                     ELSE out.response
                /\ UNCHANGED <<claudeCalls, claudeRequest>>
  /\ UNCHANGED <<request, result, claudeOutcome, claudeReply>>
  /\ UNCHANGED hook

\* POST from its start to its response or to the call of evaluateWithClaude;
\* isSuperuser(studyCodeId) decides whether the metadata is attached
PostLocal ==
  /\ pc = "server"
  /\ \E includeSuperuserMetadata \in BOOLEAN, out \in {PostTiers(request)} :
           IF out.callClaude
           THEN /\ pc' = IF includeSuperuserMetadata THEN "claude_su" ELSE "claude"
                /\ claudeCalls' = claudeCalls + 1
                /\ claudeRequest' = EvaluateWithClaudeArgs(request)
                /\ UNCHANGED response
           ELSE /\ pc' = "responded"
                /\ response' =
                     IF out.response.status = 200
                     THEN OkResponse(WithMetadata(out.response.body,
                                                  includeSuperuserMetadata,
                                                  out.metadata))
                     ELSE out.response
                /\ UNCHANGED <<claudeCalls, claudeRequest>>
  /\ UNCHANGED <<request, result, claudeOutcome, claudeReply>>
  /\ UNCHANGED hook

\* metadata POST attaches to the result of evaluateWithClaude
ClaudeMetadata(req, claudeConfidence) ==
  [NoMetadata EXCEPT
     !.confidenceScore = claudeConfidence,
     !.evaluationTier = "claude_api",
     !.similarityScore =
        IF Truthy(req.correctAnswer)
        THEN RoundPercent(calculateSimilarity(req.userAnswer, req.correctAnswer))
        ELSE -1,
     !.usedClaudeAPI = TRUE]

\* mutant: the verdict is taken from the score and a reply of low
\* confidence is rejected
EvaluationOf_Regraded(reply) ==
  IF reply.confidenceScore < 60
  THEN MkResult(FALSE, 50, FALSE, "unable_to_evaluate", "none", Undefined,
                NoMatchInfo)
  ELSE MkResult(reply.score >= 70, reply.score, reply.hasCorrectAccents,
                reply.feedback, reply.corrections, reply.correctedAnswer,
                NoMatchInfo)

\* const { confidenceScore, ...evaluationResult } = claudeResponse
EvaluationOf(reply) ==
  MkResult(reply.isCorrect, reply.score, reply.hasCorrectAccents,
           reply.feedback, reply.corrections, reply.correctedAnswer,
           NoMatchInfo)

\* evaluateWithClaude parses the reply; POST returns it
ClaudeResponds ==
  /\ pc \in {"claude", "claude_su"}
  /\ \E reply \in ClaudeReplies :
       /\ claudeReply' = reply
       /\ response' = OkResponse(WithMetadata(
            EvaluationOf(reply), pc = "claude_su",
            ClaudeMetadata(request, reply.confidenceScore)))
  /\ claudeOutcome' = "ok"
  /\ pc' = "responded"
  /\ UNCHANGED <<request, result, claudeCalls, claudeRequest>>
  /\ UNCHANGED hook

\* evaluateWithClaude catches the failure; POST returns the fallback result
ClaudeFails ==
  /\ pc \in {"claude", "claude_su"}
  /\ \E failure \in ClaudeFailures : claudeOutcome' = failure
  /\ response' = OkResponse(WithMetadata(ClaudeFailureResult, pc = "claude_su",
                                         ClaudeMetadata(request, -1)))
  /\ pc' = "responded"
  /\ UNCHANGED <<request, result, claudeCalls, claudeReply, claudeRequest>>
  /\ UNCHANGED hook

\* mutant: the body is returned whatever the status
ClientReceives_NoOkTest ==
  /\ pc = "responded"
  /\ result' = response.body
  /\ pc' = "done"
  /\ UNCHANGED <<request, response, claudeCalls, claudeOutcome, claudeReply,
                 claudeRequest>>
  /\ UNCHANGED hook

\* evaluateWritingAnswer: the response arrives
ClientReceives ==
  /\ pc = "responded"
  /\ result' = IF response.status \in 200..299
               THEN response.body
               ELSE ClientFailureResult
  /\ pc' = "done"
  /\ UNCHANGED <<request, response, claudeCalls, claudeOutcome, claudeReply,
                 claudeRequest>>
  /\ UNCHANGED hook

Next ==
  \/ Fetch
  \/ FetchFails
  \/ PostLocal
  \/ ClaudeResponds
  \/ ClaudeFails
  \/ ClientReceives

Spec == Init /\ [][Next]_vars

(***************************************************************************)
(* Vocabulary of the properties.                                           *)
(***************************************************************************)
NormalizedForm(text) == normalizePunctuationSpacing(normalizeText(text))
NormalizedEqual(a, b) == NormalizedForm(a) = NormalizedForm(b)

\* the request passed POST's validation: the tiers run on it
Validated == Truthy(request.question) /\ Truthy(request.userAnswer)
\* the answer passes the empty check
LongEnough == Len(Trim(request.userAnswer)) >= 2
\* a canonical answer is present (not null and not the empty string)
HasCanonical == Truthy(request.correctAnswer)
PrimaryExact ==
  HasCanonical /\ NormalizedEqual(request.userAnswer, request.correctAnswer)

\* the evaluator deferred: evaluateWithClaude has just been called
Deferring == pc \in {"claude", "claude_su"}
\* evaluate returned a result decided by a local tier
LocalResult == pc = "done" /\ response.status = 200 /\ claudeCalls = 0

\* variation v is matched by the answer: normalized-equal or 0.95 similar
Qualifies(userAnswer, v) ==
  \/ NormalizedEqual(userAnswer, v)
  \/ \E sim \in {calculateSimilarity(userAnswer, v)} : sim.num * 100 >= 95 * sim.den

\* 1-based position of the first variation the answer matches, 0 if none
FirstQualifying ==
  LET hits == {i \in 1..Len(request.acceptableVariations) :
                 Qualifies(request.userAnswer, request.acceptableVariations[i])}
  IN  IF hits = {} THEN 0 ELSE CHOOSE i \in hits : \A j \in hits : i <= j

(***************************************************************************)
(* C1: the local tiers apply in the order empty check, exact match against *)
(* the primary answer, accepted variations, fuzzy match against the        *)
(* primary answer, and the first that decides wins: a validated answer too *)
(* short is rejected by the empty check; otherwise an answer normalized-   *)
(* equal to the canonical answer gets the exact-match result (score 100 or *)
(* 98, never matched against a variation) even when a variation matches    *)
(* too; otherwise a matching variation decides; only otherwise the fuzzy   *)
(* tier decides or defers.                                                 *)
(***************************************************************************)
C1_TierOrder ==
  /\ Deferring =>
       /\ LongEnough
       /\ ~PrimaryExact
       /\ HasCanonical => \A first \in {FirstQualifying} : first = 0
  /\ LocalResult =>
       IF ~LongEnough
       THEN result.feedback = "too_short" /\ result.score = 0
       ELSE IF PrimaryExact
       THEN /\ result.isCorrect
            /\ result.score \in {100, 98}
            /\ result.matchInfo.matchedAgainst # "acceptable_variation"
            /\ result.matchInfo.evaluationReason \in {"none", "exact_primary"}
            /\ result.feedback \in {"perfect", "accent_reminder"}
       ELSE \A first \in {FirstQualifying} :
              IF first > 0
              THEN result.matchInfo.matchedAgainst = "acceptable_variation"
              ELSE result.matchInfo.evaluationReason = "fuzzy_primary"

\* an answer equal to the canonical answer and to a variation was graded
C1_Witness ==
  /\ LocalResult /\ LongEnough /\ PrimaryExact
  /\ Len(request.acceptableVariations) > 0
  /\ NormalizedEqual(request.userAnswer, request.acceptableVariations[1])
  /\ result.score = 100
  /\ result.matchInfo.evaluationReason = "exact_primary"

(***************************************************************************)
(* C2: an answer whose trimmed length is below 2 is never graded by a      *)
(* later tier nor deferred: evaluate returns isCorrect = FALSE, score = 0, *)
(* whatever the canonical answer is.                                       *)
(***************************************************************************)
C2_EmptyCheck ==
  ~LongEnough =>
    /\ ~Deferring
    /\ claudeCalls = 0
    /\ pc = "done" =>
         /\ ~result.isCorrect
         /\ result.score = 0
         /\ result.feedback \in {"too_short", "unable_to_evaluate_retry"}

\* a one-character answer identical to the canonical answer was rejected
C2_Witness ==
  /\ pc = "done" /\ response.status = 200
  /\ request.userAnswer = <<"e">> /\ request.correctAnswer = <<"e">>
  /\ result.feedback = "too_short" /\ result.score = 0

(***************************************************************************)
(* C3: when the canonical answer is present and the answer (trimmed length *)
(* at least 2) is normalized-equal to it, evaluate returns isCorrect with  *)
(* score 100 and hasCorrectAccents = TRUE exactly when the two are equal   *)
(* after lower-casing, white-space collapsing and punctuation spacing      *)
(* without diacritic stripping, and score 98, hasCorrectAccents = FALSE    *)
(* otherwise.                                                              *)
(***************************************************************************)
C3_ExactMatchScore ==
  (LocalResult /\ LongEnough /\ PrimaryExact) =>
    /\ result.isCorrect
    /\ result.hasCorrectAccents =
         hasCorrectAccents(request.userAnswer, request.correctAnswer)
    /\ result.score = IF result.hasCorrectAccents THEN 100 ELSE 98

\* the similarity ratio rounded to the nearest percent, halves up
NearestPercent(sim) ==
  CHOOSE p \in 0..100 :
    /\ 2 * p * sim.den <= 200 * sim.num + sim.den
    /\ 200 * sim.num + sim.den < 2 * (p + 1) * sim.den

\* the accepted-variation tier is reached
VariationTierReached == Validated /\ LongEnough /\ HasCanonical /\ ~PrimaryExact

C5_BandsOnRatio ==
  (LocalResult /\ result.matchInfo.evaluationReason = "fuzzy_primary") =>
    \A sim \in {calculateSimilarity(request.userAnswer, request.correctAnswer)} :
      result.isCorrect <=>
        \/ sim.num * 100 >= 95 * sim.den
        \/ sim.num * 100 >= 85 * sim.den /\ request.difficulty = "beginner"

(***************************************************************************)
(* C5 amended: whenever the fuzzy tier decides locally the verdict follows *)
(* the bands applied to the similarity rounded to the nearest percent:     *)
(* correct if the percent is at least 95, correct for beginner only if it  *)
(* is in 85..94, incorrect below 85.                                       *)
(***************************************************************************)
C5_BandsOnPercent ==
  (LocalResult /\ result.matchInfo.evaluationReason = "fuzzy_primary") =>
    \A sim \in {calculateSimilarity(request.userAnswer, request.correctAnswer)} :
      \A percent \in {NearestPercent(sim)} :
        result.isCorrect <=>
          \/ percent >= 95
          \/ percent >= 85 /\ request.difficulty = "beginner"

\* similarity 18/19 = 0.947 at intermediate difficulty is graded correct
C5_Witness ==
  /\ LocalResult
  /\ result.matchInfo.evaluationReason = "fuzzy_primary"
  /\ request.difficulty = "intermediate"
  /\ calculateSimilarity(request.userAnswer, request.correctAnswer)
       = [num |-> 18, den |-> 19]
  /\ result.isCorrect

(***************************************************************************)
(* C6: the accepted-variation tier is first-match-wins in list order: when *)
(* the tier is reached and some variation is normalized-equal or at least  *)
(* 0.95 similar to the answer, the result is a match against the variation *)
(* of least index that is, whatever later variations would match; and a    *)
(* match against a variation is reported only for that one.                *)
(***************************************************************************)
C6_FirstMatchWins ==
  ((Deferring \/ LocalResult) /\ VariationTierReached) =>
    \A first \in {FirstQualifying} :
      /\ first > 0 =>
           /\ LocalResult
           /\ result.matchInfo.matchedAgainst = "acceptable_variation"
           /\ result.matchInfo.matchedVariationIndex = first - 1
      /\ (LocalResult /\ result.matchInfo.matchedAgainst = "acceptable_variation")
           => first > 0

\* the first variation is only similar, the second is equal: the first wins
C6_Witness ==
  /\ LocalResult /\ VariationTierReached
  /\ Len(request.acceptableVariations) = 2
  /\ ~NormalizedEqual(request.userAnswer, request.acceptableVariations[1])
  /\ NormalizedEqual(request.userAnswer, request.acceptableVariations[2])
  /\ result.matchInfo.matchedVariationIndex = 0

C9_OpenEndedDefers ==
  (Validated /\ LongEnough /\ request.correctAnswer = Null) =>
    /\ ~LocalResult
    /\ pc \in {"responded", "done"} /\ response.status # 0 => claudeCalls = 1
    /\ pc \in {"claude", "claude_su"} => claudeCalls = 1

\* null canonical answer, the answer equals the first variation: deferred
C9_Witness ==
  /\ Deferring /\ LongEnough
  /\ request.correctAnswer = Null
  /\ Len(request.acceptableVariations) > 0
  /\ request.userAnswer = request.acceptableVariations[1]

PostRan ==
  \/ pc \in {"claude", "claude_su", "responded"}
  \/ pc = "done" /\ response.status # 0

\* POST has just answered from a local tier or rejected the request
LocalResponse == pc = "responded" /\ claudeOutcome = "none"

\* confidence threshold of the request, in percent: 85 for a difficulty that
\* is none of the three
ThresholdPercent ==
  CASE request.difficulty = "beginner" -> 70
    [] request.difficulty = "advanced" -> 95
    [] OTHER -> 85
\* the lookup of the difficulty yields a number
ThresholdIsNumber == request.difficulty \notin ObjectPrototypeKeys

\* no local tier yields a terminal result for the request
NoLocalTerminal ==
  /\ Validated /\ LongEnough
  /\ \/ ~HasCanonical
     \/ /\ ~PrimaryExact
        /\ \A first \in {FirstQualifying} : first = 0
        /\ \A sim \in {calculateSimilarity(request.userAnswer,
                                            request.correctAnswer)} :
             ThresholdIsNumber /\ sim.num * 100 < ThresholdPercent * sim.den

(***************************************************************************)
(* C11: the semantic fallback is invoked during an evaluation if and only  *)
(* if no local tier produced a terminal result; it is invoked at most once *)
(* and never once a local tier has produced its result, and it has an      *)
(* outcome only if it was invoked.                                         *)
(***************************************************************************)
C11_FallbackIffDeferred ==
  /\ claudeCalls \in {0, 1}
  /\ pc \in {"start", "server"} => claudeCalls = 0
  /\ Deferring => (claudeCalls = 1 /\ NoLocalTerminal)
  /\ LocalResponse => (claudeCalls = 0 /\ ~NoLocalTerminal)
  /\ pc \in {"responded", "done"} => (claudeCalls = 1 <=> claudeOutcome # "none")
  /\ claudeOutcome # "none" => pc \in {"responded", "done"}

\* a request with a canonical answer was deferred and the fallback answered
C11_Witness ==
  /\ pc = "done" /\ HasCanonical /\ NoLocalTerminal
  /\ claudeCalls = 1 /\ claudeOutcome = "ok"

\* r has the shape of a MatchResult: the five fields with values
IsMatchResult(r) ==
  /\ ~r.isNull
  /\ r.isCorrect \in BOOLEAN
  /\ r.hasCorrectAccents \in BOOLEAN
  /\ r.score \in 0..100
  /\ r.feedback # "none"
  /\ r.corrections \in {"none", "accents", "suggestions"}

PostProgress == []<>(pc # "server")

LiveSpec ==
  /\ Spec
  /\ WF_vars(Fetch \/ FetchFails)
  /\ PostProgress
  /\ WF_vars(ClientReceives)

\* an evaluation started runs to its result or to the call of the fallback
LocalProgress == (pc = "start") ~> (pc = "done" \/ Deferring)

(***************************************************************************)
(* C13: every evaluation that reaches the semantic fallback eventually     *)
(* completes with a result, even if the fallback never responds.           *)
(***************************************************************************)
C13_EventuallyCompletes == Deferring ~> (pc = "done")

(***************************************************************************)
(* C14: when the evaluator defers and the semantic fallback answers, what  *)
(* evaluate returns has the isCorrect, score, hasCorrectAccents, feedback, *)
(* corrections and correctedAnswer of the reply, unchanged, whatever the   *)
(* confidence the reply reports; the confidence appears only in the        *)
(* diagnostics of a privileged caller.                                     *)
(***************************************************************************)
C14_FallbackVerbatim ==
  (claudeOutcome = "ok" /\ pc \in {"responded", "done"}) =>
    \A r \in {IF pc = "done" THEN result ELSE response.body} :
      /\ r.isCorrect = claudeReply.isCorrect
      /\ r.score = claudeReply.score
      /\ r.hasCorrectAccents = claudeReply.hasCorrectAccents
      /\ r.feedback = claudeReply.feedback
      /\ r.corrections = claudeReply.corrections
      /\ r.correctedAnswer = claudeReply.correctedAnswer
      /\ r.metadata.confidenceScore \in {-1, claudeReply.confidenceScore}

\* a reply of confidence 55 was returned as it is, to a privileged caller
C14_Witness ==
  /\ pc = "done" /\ claudeOutcome = "ok"
  /\ claudeReply.confidenceScore = 55
  /\ result.feedback = "claude_wrong"
  /\ result.metadata.confidenceScore = 55

\* a and b differ at most by white space immediately before ? ! ; :
SameUpToPunctuationSpacing(a, b) ==
  normalizePunctuationSpacing(a) = normalizePunctuationSpacing(b)

\* in the library the two answers of the request, when they differ only by
\* white space before a punctuation mark, are normalized-equal, have
\* similarity 1 and pass hasCorrectAccents
LibraryPunctuationSpacing ==
  ( /\ Truthy(request.userAnswer) /\ HasCanonical
    /\ SameUpToPunctuationSpacing(request.userAnswer, request.correctAnswer) ) =>
    /\ NormalizedEqual(request.userAnswer, request.correctAnswer)
    /\ hasCorrectAccents(request.userAnswer, request.correctAnswer)
    /\ \A sim \in {calculateSimilarity(request.userAnswer,
                                        request.correctAnswer)} :
         sim.num = sim.den

(***************************************************************************)
(* C15: an answer that differs from the canonical answer only by white     *)
(* space immediately before one of ? ! ; : is treated as the same answer:  *)
(* evaluate returns the exact-match result isCorrect = TRUE, score 100,    *)
(* hasCorrectAccents = TRUE.                                               *)
(***************************************************************************)
C15_PunctuationSpacing ==
  ( /\ LocalResult /\ LongEnough /\ HasCanonical
    /\ SameUpToPunctuationSpacing(request.userAnswer, request.correctAnswer) ) =>
    /\ result.isCorrect
    /\ result.score = 100
    /\ result.hasCorrectAccents

\* an answer with a space before the question mark, the canonical answer
\* without: graded 100 by the library's exact match
C15_SpaceBeforeMarkGraded ==
  /\ LocalResult /\ LongEnough /\ HasCanonical
  /\ request.userAnswer # request.correctAnswer
  /\ SameUpToPunctuationSpacing(request.userAnswer, request.correctAnswer)
  /\ result.score = 100 /\ result.matchInfo.evaluationReason = "exact_primary"

\* the difficulty of the request is none of the three levels
UnknownDifficulty ==
  request.difficulty \notin {"beginner", "intermediate", "advanced"}

(***************************************************************************)
(* C16: a request whose difficulty is none of beginner, intermediate,      *)
(* advanced is graded with the intermediate threshold: in the fuzzy tier   *)
(* evaluate defers if and only if the similarity to the canonical answer   *)
(* is below 0.85, and fails in neither case.                               *)
(***************************************************************************)
C16_UnknownDifficulty ==
  ( /\ Deferring \/ LocalResult
    /\ UnknownDifficulty
    /\ VariationTierReached ) =>
    \A first \in {FirstQualifying},
       sim \in {calculateSimilarity(request.userAnswer, request.correctAnswer)} :
      first = 0 => (Deferring <=> sim.num * 100 < 85 * sim.den)

\* difficulty "expert", similarity 0.80: deferred as for intermediate
C16_ExpertDeferred ==
  /\ Deferring /\ HasCanonical
  /\ request.difficulty = "expert"
  /\ calculateSimilarity(request.userAnswer, request.correctAnswer)
       = [num |-> 4, den |-> 5]

\* C16 for the difficulties that name no member of Object.prototype
OrdinaryUnknownDifficulty ==
  ( /\ Deferring \/ LocalResult
    /\ UnknownDifficulty /\ ThresholdIsNumber
    /\ VariationTierReached ) =>
    \A first \in {FirstQualifying},
       sim \in {calculateSimilarity(request.userAnswer, request.correctAnswer)} :
      first = 0 => (Deferring <=> sim.num * 100 < 85 * sim.den)

\* the grade of a result: what the learner is told
GradeOf(r) ==
  [isCorrect |-> r.isCorrect, score |-> r.score,
   hasCorrectAccents |-> r.hasCorrectAccents, feedback |-> r.feedback,
   corrections |-> r.corrections, correctedAnswer |-> r.correctedAnswer]

\* the grade the fallback's outcome gives, whoever the caller is
FallbackGrade ==
  IF claudeOutcome = "ok" THEN GradeOf(EvaluationOf(claudeReply))
  ELSE GradeOf(ClaudeFailureResult)

\* diagnostics are attached to the response
Privileged == response.body.metadata.evaluationTier # "none"

(***************************************************************************)
(* C17: attaching diagnostics never changes the grade: the isCorrect,      *)
(* score, hasCorrectAccents, feedback, corrections and correctedAnswer of  *)
(* a response, and whether the evaluation defers, are the same whether or  *)
(* not the caller is privileged and tier metadata is attached.             *)
(***************************************************************************)
C17_DiagnosticsNeutral ==
  /\ (Deferring \/ LocalResponse) =>
       \A unprivileged \in {PostTiers(request)} :
         /\ Deferring <=> unprivileged.callClaude
         /\ LocalResponse =>
              /\ response.status = unprivileged.response.status
              /\ GradeOf(response.body) = GradeOf(unprivileged.response.body)
  /\ (pc \in {"responded", "done"} /\ claudeOutcome # "none") =>
       GradeOf(response.body) = FallbackGrade
  /\ (pc = "done" /\ response.status = 200) =>
       GradeOf(result) = GradeOf(response.body)

\* a fuzzy result returned to a privileged caller with its metadata
C17_Witness ==
  /\ pc = "done" /\ response.status = 200 /\ Privileged
  /\ result.metadata.evaluationTier = "fuzzy_logic"
  /\ result.metadata.similarityScore = 95
  /\ result.score = 95

\* the request with nothing but the four inputs of the local tiers
LocalInputs(req) ==
  [question |-> <<"q">>, userAnswer |-> req.userAnswer,
   correctAnswer |-> req.correctAnswer,
   acceptableVariations |-> req.acceptableVariations,
   difficulty |-> req.difficulty]

TextsReceived == pc = "server" /\ request.difficulty = "beginner"

\* the texts of the request: the answer, the canonical answer if it is a
\* string, the acceptable variations
RequestTexts ==
  {request.userAnswer}
    \cup (IF request.correctAnswer = Null THEN {} ELSE {request.correctAnswer})
    \cup {request.acceptableVariations[i] :
            i \in 1..Len(request.acceptableVariations)}

(***************************************************************************)
(* C19: for all strings a and b, similarity(a, b) lies in [0, 1],          *)
(* similarity(a, b) = similarity(b, a), similarity(a, a) = 1, and the      *)
(* similarity of two empty strings is 1.  Checked on the answer of every   *)
(* request against each of its texts, at the point where POST receives it. *)
(***************************************************************************)
C19_SimilarityBounds ==
  TextsReceived =>
    /\ \A a \in {request.userAnswer}, b \in RequestTexts :
         /\ \A ab \in {calculateSimilarity(a, b)}, ba \in {calculateSimilarity(b, a)} :
              /\ ab.den > 0
              /\ 0 <= ab.num /\ ab.num <= ab.den
              /\ ab = ba
              /\ a = b => ab.num = ab.den
         /\ \A bb \in {calculateSimilarity(b, b)} : bb.num = bb.den
    /\ \A e \in {calculateSimilarity(<<>>, <<>>)} : e.num = e.den

\* two different texts of similarity 11/13, in both directions
C19_Witness ==
  /\ TextsReceived
  /\ request.correctAnswer # Null
  /\ request.userAnswer # request.correctAnswer
  /\ calculateSimilarity(request.userAnswer, request.correctAnswer)
       = [num |-> 11, den |-> 13]
  /\ calculateSimilarity(request.correctAnswer, request.userAnswer)
       = [num |-> 11, den |-> 13]

\* the form in which calculateSimilarity compares two texts
ComparisonForm(text) == normalizePunctuationSpacing(normalizeText(text))

(***************************************************************************)
(* C20: normalisation is idempotent: normalizeText(normalizeText(x)) =     *)
(* normalizeText(x) for every string x, and the same holds for the full    *)
(* comparison form normalizePunctuationSpacing(normalizeText(x)).  Checked *)
(* on the texts of every request, at the point where POST receives it.     *)
(***************************************************************************)
C20_NormalizeIdempotent ==
  pc = "server" =>
    \A x \in RequestTexts :
      \A once \in {normalizeText(x)}, form \in {ComparisonForm(x)} :
        /\ normalizeText(once) = once
        /\ ComparisonForm(form) = form
        /\ normalizeText(form) = form

\* an answer with an accent and a space before the question mark: both
\* normalisations change it
C20_Witness ==
  /\ pc = "server"
  /\ request.userAnswer = <<"a", "e_acute", " ", "?", "a">>
  /\ normalizeText(request.userAnswer) = <<"a", "e", " ", "?", "a">>
  /\ ComparisonForm(request.userAnswer) = <<"a", "e", "?", "a">>

\* the fields of an EvaluationRequest, as evaluateWritingAnswer posts them
EvaluationRequestFields ==
  {"question", "userAnswer", "correctAnswer", "acceptableVariations",
   "difficulty", "questionType"}

FallbackArgumentsAsSubmitted ==
  claudeCalls = 1 =>
    /\ DOMAIN claudeRequest = EvaluationRequestFields \ {"acceptableVariations"}
    /\ \A f \in DOMAIN claudeRequest : claudeRequest[f] = request[f]

Returned == pc = "done"

FuzzyDecided ==
  LocalResult /\ result.matchInfo.evaluationReason = "fuzzy_primary"

(***************************************************************************)
(* C23: whenever the fuzzy tier decides locally, in all three correctness  *)
(* bands and whatever the verdict, the returned score is the similarity    *)
(* percent round(similarity * 100), not remapped, correctedAnswer is the   *)
(* canonical correctAnswer, and hasCorrectAccents is the value of          *)
(* hasCorrectAccents(userAnswer, correctAnswer).                           *)
(***************************************************************************)
C23_FuzzyResultFields ==
  FuzzyDecided =>
    \A sim \in {calculateSimilarity(request.userAnswer, request.correctAnswer)} :
      /\ result.score = NearestPercent(sim)
      /\ result.matchInfo.matchedSimilarity = NearestPercent(sim)
      /\ result.correctedAnswer = request.correctAnswer
      /\ result.hasCorrectAccents =
           hasCorrectAccents(request.userAnswer, request.correctAnswer)

\* a beginner answer of similarity 4/5 in the lowest band: incorrect, score
\* 80, the canonical answer as correction
C23_Witness ==
  /\ FuzzyDecided
  /\ ~result.isCorrect
  /\ result.score = 80
  /\ result.feedback = "several_errors"
  /\ result.correctedAnswer = request.correctAnswer

\* the two other bands are reached too
C23_MiddleBandReached ==
  FuzzyDecided /\ result.feedback = "not_bad" /\ result.score = 85

C23_TopBandReached ==
  FuzzyDecided /\ result.feedback = "minor_typo" /\ result.score = 95

\* the tiers after the empty check ran on a request with a canonical answer
PastEmptyCheck == Validated /\ LongEnough /\ request.correctAnswer # Null

\* the answer is below 0.85 similar to the canonical answer
SimilarityBelowBeginnerPass ==
  \A sim \in {calculateSimilarity(request.userAnswer, request.correctAnswer)} :
    sim.num * 100 < 85 * sim.den

\* what decides an advanced answer locally: exact match (tier 2 or the
\* library's), a matching variation, or similarity at least 0.95
AdvancedLocal ==
  \/ RouteNormalizeText(request.userAnswer) = RouteNormalizeText(request.correctAnswer)
  \/ PrimaryExact
  \/ FirstQualifying # 0
  \/ \A sim \in {calculateSimilarity(request.userAnswer, request.correctAnswer)} :
       sim.num * 100 >= 95 * sim.den

\* the part of C24 about difficulty advanced
AdvancedNeverIncorrect ==
  (PastEmptyCheck /\ request.difficulty = "advanced") =>
    /\ LocalResult => (result.isCorrect /\ AdvancedLocal)
    /\ Deferring => ~(HasCanonical /\ AdvancedLocal)

(***************************************************************************)
(* C24: for difficulty advanced with a non-null correctAnswer, once past   *)
(* the empty check, no local result has isCorrect = false: every locally   *)
(* decided advanced result is correct (exact match, variation match or     *)
(* similarity at least 0.95) and every other answer defers; and a local    *)
(* incorrect result with similarity below 0.85 occurs only for difficulty  *)
(* beginner.                                                               *)
(***************************************************************************)
C24_AdvancedAndLowBand ==
  /\ AdvancedNeverIncorrect
  /\ (PastEmptyCheck /\ LocalResult /\ ~result.isCorrect
        /\ SimilarityBelowBeginnerPass) =>
       request.difficulty = "beginner"

\* the low band is beginner's alone among the difficulties whose threshold
\* is a number
LowBandOfNumericThresholds ==
  (PastEmptyCheck /\ LocalResult /\ ~result.isCorrect
     /\ SimilarityBelowBeginnerPass /\ ThresholdIsNumber) =>
    request.difficulty = "beginner"

\* an advanced answer of similarity 18/19 = 0.947 is deferred, not graded
\* incorrect
C24_AdvancedDeferred ==
  /\ Deferring /\ PastEmptyCheck
  /\ request.difficulty = "advanced"
  /\ calculateSimilarity(request.userAnswer, request.correctAnswer)
       = [num |-> 18, den |-> 19]

\* a beginner answer of similarity 4/5 is graded incorrect locally
C24_BeginnerLowBand ==
  /\ LocalResult /\ PastEmptyCheck /\ ~result.isCorrect
  /\ request.difficulty = "beginner"
  /\ SimilarityBelowBeginnerPass

\* length of the short answers, whose every prefix pair is examined
ShortTextLen == MaxLen + 3

Max2(x, y) == IF x >= y THEN x ELSE y

\* the defining recurrence of the classic edit distance (insertion,
\* deletion and substitution cost 1 each), at the pair (a, b): with the
\* two base cases it determines the distance of every pair by induction on
\* the lengths
EditRecurrence(a, b) ==
  IF a = <<>> THEN levenshteinDistance(a, b) = Len(b)
  ELSE IF b = <<>> THEN levenshteinDistance(a, b) = Len(a)
  ELSE LET a0 == SubSeq(a, 1, Len(a) - 1)
           b0 == SubSeq(b, 1, Len(b) - 1)
           substitution == IF a[Len(a)] = b[Len(b)] THEN 0 ELSE 1
       IN  levenshteinDistance(a, b) =
             Min2(levenshteinDistance(a0, b0) + substitution,
                  Min2(levenshteinDistance(a0, b) + 1,
                       levenshteinDistance(a, b0) + 1))

(***************************************************************************)
(* C25: levenshteinDistance(a, b) is the classic edit distance between a   *)
(* and b, insertion, deletion and substitution costing 1 each, for all     *)
(* strings including the empty one: it is 0 exactly when a = b, it is the  *)
(* other string's length when one is empty, it is symmetric and it never   *)
(* exceeds max(len(a), len(b)).  Checked on the answer of every request    *)
(* against each of its texts; the recurrence of the edit distance is       *)
(* checked at every pair of prefixes of the short texts.                   *)
(***************************************************************************)
C25_EditDistance ==
  TextsReceived =>
    \A a \in {request.userAnswer}, b \in RequestTexts :
      /\ \A d \in {levenshteinDistance(a, b)} :
           /\ d = levenshteinDistance(b, a)
           /\ d >= 0 /\ d <= Max2(Len(a), Len(b))
           /\ d = 0 <=> a = b
      /\ levenshteinDistance(b, b) = 0
      /\ levenshteinDistance(b, <<>>) = Len(b)
      /\ levenshteinDistance(<<>>, b) = Len(b)
      /\ (Len(a) <= ShortTextLen /\ Len(b) <= ShortTextLen) =>
           \A i \in 0..Len(a), j \in 0..Len(b) :
             EditRecurrence(SubSeq(a, 1, i), SubSeq(b, 1, j))

\* two texts one deletion and one substitution apart: distance 2 both ways
C25_Witness ==
  /\ TextsReceived
  /\ request.userAnswer = <<"a", "e_acute", "?", "a">>
  /\ request.correctAnswer = <<"a", "e", "e", "?", "a">>
  /\ levenshteinDistance(request.userAnswer, request.correctAnswer) = 2
  /\ levenshteinDistance(request.correctAnswer, request.userAnswer) = 2

\* the tier the diagnostics of a result name: the evaluationTier of the
\* metadata, refined for 'fuzzy_logic' by the match information the library
\* sets (exact match, variation, fuzzy match against the primary answer)
Provenance(r) ==
  CASE r.metadata.evaluationTier = "empty_check" -> "empty_check"
    [] r.metadata.evaluationTier = "exact_match" -> "exact_match"
    [] r.metadata.evaluationTier = "claude_api" -> "semantic_fallback"
    [] r.metadata.evaluationTier = "fuzzy_logic" ->
         (CASE r.matchInfo.evaluationReason = "exact_primary" -> "exact_match"
            [] r.matchInfo.matchedAgainst = "acceptable_variation" -> "variant_match"
            [] r.matchInfo.evaluationReason = "fuzzy_primary" -> "fuzzy_match"
            [] OTHER -> "none")
    [] OTHER -> "none"

\* the tier that produced the response, told from the request and from
\* whether the semantic evaluator was called
ProducingTier ==
  IF claudeCalls = 1 THEN "semantic_fallback"
  ELSE IF ~LongEnough THEN "empty_check"
  ELSE IF \/ PrimaryExact
          \/ RouteNormalizeText(request.userAnswer)
               = RouteNormalizeText(request.correctAnswer)
       THEN "exact_match"
  ELSE IF FirstQualifying # 0 THEN "variant_match"
  ELSE "fuzzy_match"

\* POST responded with a result that carries diagnostics
DiagnosticsAttached ==
  pc = "responded" /\ response.status = 200 /\ Privileged

ExactLocalResult ==
  \/ /\ HasCanonical
     /\ RouteNormalizeText(request.userAnswer)
          = RouteNormalizeText(request.correctAnswer)
  \/ PrimaryExact
  \/ /\ result.matchInfo.evaluationReason = "exact_variation"
     /\ NormalizedEqual(request.userAnswer,
           request.acceptableVariations[result.matchInfo.matchedVariationIndex + 1])

(***************************************************************************)
(* C27: hasCorrectAccents(a, b) = true implies that a and b are            *)
(* normalized-equal; so every local result of a similarity branch (a       *)
(* similarity match against a variation, a fuzzy decision against the      *)
(* primary answer) has hasCorrectAccents = false, and hasCorrectAccents =  *)
(* true occurs in a local result only for exact matches.                   *)
(***************************************************************************)
C27_AccentsOnlyWhenExact ==
  /\ pc = "server" =>
       \A a \in RequestTexts, b \in RequestTexts :
         hasCorrectAccents(a, b) => NormalizedEqual(a, b)
  /\ LocalResult =>
       /\ result.matchInfo.evaluationReason
            \in {"similarity_variation", "fuzzy_primary"}
          => ~result.hasCorrectAccents
       /\ result.hasCorrectAccents => ExactLocalResult

\* a similarity match against a variation: accents reported incorrect
C27_Witness ==
  /\ LocalResult
  /\ result.matchInfo.evaluationReason = "similarity_variation"
  /\ ~result.hasCorrectAccents
  /\ ~ExactLocalResult

\* an exact match against a variation with the accents right
C27_ExactWithAccents ==
  /\ LocalResult
  /\ result.matchInfo.evaluationReason = "exact_variation"
  /\ result.hasCorrectAccents

\* verdict and score of a local result agree
VerdictMatchesScore ==
  /\ result.isCorrect =>
       /\ result.score >= 85
       /\ request.difficulty # "beginner" => result.score >= 93
  /\ ~result.isCorrect => (result.score = 0 \/ result.score \in 70..94)
  /\ ~(0 < result.score /\ result.score < 70)

VerdictScoreOfNumericThresholds ==
  (LocalResult /\ ThresholdIsNumber) =>
    /\ VerdictMatchesScore
    /\ result.score = 0 => (~result.isCorrect /\ ~LongEnough)

C28_BeginnerCorrect ==
  /\ LocalResult /\ result.isCorrect
  /\ request.difficulty = "beginner"
  /\ result.score = 85

(***************************************************************************)
(* useQuestionEvaluation inside WritingQuestionComponent.  The evaluation  *)
(* of one answer is a call of evaluateWritingAnswer in flight; the actions *)
(* are the events of the component.                                        *)
(***************************************************************************)
\* React renders the component after state was set outside an event
\* handler (in the continuation of an await): the updates of an event
\* handler are rendered before the next event, with the handler's action
Render ==
  /\ hook.rendered # Closure(hook)
  /\ hook' = Rerendered(hook)
  /\ UNCHANGED evalVars

\* the textarea is shown and enabled in the rendered component
InputEnabled ==
  hook.rendered.evaluation = NoEvaluation /\ ~hook.rendered.isEvaluating

\* onChange of the textarea: setUserAnswer
SetUserAnswer ==
  /\ InputEnabled
  /\ \E a \in HookAnswers \ {hook.userAnswer} :
       hook' = Rerendered([hook EXCEPT !.userAnswer = a])
  /\ UNCHANGED evalVars

\* the button is clicked or Enter is pressed and handleSubmit passes its
\* guard
SubmitEvent ==
  /\ InputEnabled
  /\ Trim(hook.rendered.userAnswer) # <<>>
  /\ hook.calls + Len(hook.awaiting) < MaxCalls

\* handleSubmit, no study code stored: submitAnswer is called at once
HandleSubmit ==
  /\ SubmitEvent
  /\ ~hook.storedStudyCode
  /\ hook' = Rerendered(submitAnswer(hook, hook.rendered))
  /\ UNCHANGED evalVars

\* handleSubmit, a study code is stored: await getStudyCodeId(code)
HandleSubmitAwaitsStudyCode ==
  /\ SubmitEvent
  /\ hook.storedStudyCode
  /\ hook' = [hook EXCEPT !.awaiting = Append(@, hook.rendered)]
  /\ UNCHANGED evalVars

\* getStudyCodeId resolves: handleSubmit goes on and calls the submitAnswer
\* of its render
StudyCodeResolves ==
  /\ \E i \in 1..Len(hook.awaiting) :
       hook' = submitAnswer(
         [hook EXCEPT !.awaiting =
            SubSeq(@, 1, i - 1) \o SubSeq(@, i + 1, Len(@))],
         hook.awaiting[i])
  /\ UNCHANGED evalVars

\* evaluateWritingAnswer resolves: setEvaluation(result), onSubmit(userAnswer,
\* result), finally setIsEvaluating(false)
EvaluationReturns ==
  /\ \E e \in hook.inFlight :
       hook' = [hook EXCEPT
                  !.inFlight = @ \ {e},
                  !.evaluation = e,
                  !.reported = @ \cup {[call |-> e.call, answer |-> e.answer,
                                        question |-> e.question,
                                        shown |-> hook.question,
                                        resetAtCall |-> hook.resetAtCall]},
                  !.isEvaluating = FALSE]
  /\ UNCHANGED evalVars

\* the parent shows another question: the component renders with it and
\* the effect on question.id runs resetAnswer
ChangeQuestion ==
  /\ \E q \in (1..MaxQuestions) \ {hook.question} :
       \E h \in {resetAnswer([hook EXCEPT !.question = q])} :
         hook' = Rerendered(h)
  /\ UNCHANGED evalVars

\* "try again" of the shown evaluation: resetAnswer
TryAgain ==
  /\ hook.rendered.evaluation # NoEvaluation
  /\ hook' = Rerendered(resetAnswer(hook))
  /\ UNCHANGED evalVars

\* the evaluation a component stands for is not started: the component
\* alone moves; getStoredStudyCode() finds a study code or none
HookInit ==
  /\ request = MkRequest(<<"q">>, <<"e", "e">>, <<"e", "e">>, <<>>, "beginner", 0)
  /\ pc = "start"
  /\ response = NoResponse
  /\ result = NullResult
  /\ claudeCalls = 0
  /\ claudeOutcome = "none"
  /\ claudeReply = NoReply
  /\ claudeRequest = NoClaudeRequest
  /\ \E stored \in BOOLEAN : hook = [HookIdle EXCEPT !.storedStudyCode = stored]

HookNext ==
  \/ Render
  \/ SetUserAnswer
  \/ HandleSubmit
  \/ HandleSubmitAwaitsStudyCode
  \/ StudyCodeResolves
  \/ EvaluationReturns
  \/ ChangeQuestion
  \/ TryAgain

HookSpec == HookInit /\ [][HookNext]_vars

(***************************************************************************)
(* C29: in useQuestionEvaluation at most one evaluation is in flight at a  *)
(* time: a submitAnswer call made while an earlier one still awaits its    *)
(* result, also one made before the component re-renders, starts no second *)
(* evaluation and no second onSubmit for the same answer.                  *)
(***************************************************************************)
C29_OneInFlight ==
  /\ Cardinality(hook.inFlight) <= 1
  /\ \A r1 \in hook.reported, r2 \in hook.reported :
       (r1.answer = r2.answer /\ r1.question = r2.question
          /\ r1.resetAtCall = r2.resetAtCall) => r1 = r2

\* submitAnswer calls of closures rendered after setIsEvaluating(true) start
\* nothing: every call in flight but the first was made by a closure of an
\* older render
GuardOfFreshRender ==
  [][(hook.rendered.isEvaluating /\ hook.inFlight # {})
       => (hook'.inFlight \subseteq hook.inFlight
             \/ Len(hook'.awaiting) < Len(hook.awaiting))]_vars

\* one evaluation in flight, the component rendered as evaluating
C29_Evaluating ==
  /\ Cardinality(hook.inFlight) = 1
  /\ hook.rendered.isEvaluating
  /\ hook.awaiting = <<>>

(***************************************************************************)
(* C30: after resetAnswer ran (it runs whenever the question shown         *)
(* changes), the evaluation of the hook stays null until a submitAnswer    *)
(* issued after the reset completes: the result of an evaluation started   *)
(* before the reset is never stored as the current evaluation nor reported *)
(* through onSubmit for the new question.                                  *)
(***************************************************************************)
C30_NoStaleEvaluation ==
  /\ hook.evaluation # NoEvaluation => hook.evaluation.call > hook.resetAtCall
  /\ \A r \in hook.reported : r.call > r.resetAtCall /\ r.question = r.shown

\* a reset with no evaluation in flight leaves the evaluation null until
\* the next call returns
ResetWhenIdle ==
  [][(hook.inFlight = {} /\ hook.awaiting = <<>>
        /\ hook'.resetAtCall # hook.resetAtCall)
       => hook'.evaluation = NoEvaluation]_vars

\* an answer submitted after a reset has its evaluation stored
C30_FreshEvaluation ==
  /\ hook.resetAtCall = 1
  /\ hook.evaluation.call = 2
  /\ hook.inFlight = {}

====
